---- MODULE Spec2Model ----
(***************************************************************************)
(* hagg-lib: the event phase protocol of packages handler and hxevents.    *)
(*                                                                         *)
(* Strings are sequences of tokens.  The tokens form a prefix code (no     *)
(* token is a prefix of another), so strings.HasPrefix / TrimPrefix on the *)
(* Go strings coincide with the prefix operations on token sequences.      *)
(*   "HX-Trigger"              = <<"HX-Trigger">>                          *)
(*   "HX-Trigger-After-Swap"   = <<"HX-Trigger", "-After-Swap">>           *)
(*   "HX-Trigger-After-Settle" = <<"HX-Trigger", "-After-Settle">>         *)
(* Go values used as payloads are written "nil", "int1", "chan"; the JSON  *)
(* texts encoding/json produces for them are "null", "1", and an error for *)
(* the channel.                                                            *)
(***************************************************************************)
EXTENDS Integers, Sequences, FiniteSets, TLC

VARIABLES
    req,              \* value of the request header HX-Request ("" = absent)
    events,           \* Context.events / the slice handed to hxevents
    eventsCommitted,  \* Context.eventsCommitted
    res,              \* the http.ResponseWriter: header map, status, sent headers, body
    pc,               \* "handler": inside h(ctx); "done": Wrap returned after h returned nil;
                      \* "failed": Wrap returned after h returned an error;
                      \* "direct": a list is being built; "deliver": it was handed to hxevents;
                      \* "marshal", "escape", "escaped": before json.Marshal, before and
                      \* after the escape loop of marshalASCIISafe;
                      \* "serve": the requests of ctxs are being served;
                      \* "toast": a Toast is being built and notified
    calls,            \* number of Render / NoContent calls the handler has made
                      \* (of Notify calls, for a Toast)
    commitCalls,      \* number of invocations of hxevents.Commit
    commitErr,        \* value returned by the last hxevents.Commit
    initialOut,       \* node returned by the last RenderInitialEvents
    toastsOut,        \* node returned by the last RenderToasts
    val,              \* marshalASCIISafe: a Go string inside the value v, as runes
    str,              \* marshalASCIISafe: the runes of the text json.Marshal returned
    buf,              \* marshalASCIISafe: the bytes written to buf
    ctxs,             \* the Contexts of the requests one Wrapper serves concurrently
    toast             \* the fields of a *toast.Toast

vars == <<req, events, eventsCommitted, res, pc, calls, commitCalls, commitErr,
          initialOut, toastsOut, val, str, buf, ctxs, toast>>

-----------------------------------------------------------------------------
(* Bounds of the model *)

\* most events one request (or one directly built list) accumulates
MaxEvents == 2

\* most Render / NoContent calls one handler makes
MaxCalls == 2

\* most runes of a Go string handed to marshalASCIISafe
MaxRunes == 2

-----------------------------------------------------------------------------
(* Phase constants, hxevents/events.go *)

Immediate == <<"HX-Trigger">>

AfterSwap == <<"HX-Trigger", "-After-Swap">>

AfterSettle == <<"HX-Trigger", "-After-Settle">>

Phase == {Immediate, AfterSwap, AfterSettle}

\* []Phase{Immediate, AfterSwap, AfterSettle}: the order the prefixes are tested in
PhaseList == <<Immediate, AfterSwap, AfterSettle>>

\* Prefix without the ':'; C26_FirstMatchOnly fails with it
PrefixNoColon(phase) == phase

\* string(phase) + ":"
Prefix(phase) == phase \o <<":">>

\* strings.HasPrefix
HasPrefix(s, prefix) ==
    /\ Len(s) >= Len(prefix)
    /\ SubSeq(s, 1, Len(prefix)) = prefix

\* strings.TrimPrefix
TrimPrefix(s, prefix) ==
    IF HasPrefix(s, prefix) THEN SubSeq(s, Len(prefix) + 1, Len(s)) ELSE s

\* IsHtmxRequest that tests the presence of the header only; C11_ExactTrue
\* fails with it
IsHtmxRequestPresent(h) == h # ""

\* IsHtmxRequest: headers.Get("HX-Request") == "true"
IsHtmxRequest(h) == h = "true"

-----------------------------------------------------------------------------
(* Inputs *)

\* Encode with the ':' left out; C10_EncodeDecode fails with it
EncodeNoColon(phase, name) == phase \o name

\* hxevents.Add: string(phase) + ":" + name
Encode(phase, name) == phase \o <<":">> \o name

\* bare names handed to hxevents.Add: a plain one, and one that is itself the
\* wire name "HX-Trigger-After-Swap:x" (it holds ':' and another phase token)
BareNames == {<<"x">>, AfterSwap \o <<":", "x">>}

\* names handed to Event as they are: two without a phase prefix, one that
\* starts with a phase token that no ':' follows ("HX-Triggerx"), and a toast
\* with a phase prefix
RawNames == {<<"x">>, <<"toast">>, <<"HX-Trigger", "x">>, <<"HX-Trigger", ":", "toast">>}

\* the name the handler of a wrapped request uses, with Event as it is and with
\* Add under each phase
HandlerNames == {<<"x">>}

HandlerBareNames == {<<"x">>}

\* Go values handed over as payloads; "chan" cannot be serialized to JSON
Payloads == {"nil", "int1", "chan"}

\* values of the request header HX-Request; "" is the absent header
ReqValues == {"", "true", "false"}

\* the values of HX-Request of the wrapped requests
HandlerReqValues == {"", "true"}

-----------------------------------------------------------------------------
(* Go maps map[string]any as functions with a finite domain *)

EmptyMap == [k \in {} |-> "nil"]

\* MapPut that keeps the value a key already has; C9_LastWriteWins fails with it
MapPutKeepFirst(m, k, v) ==
    [x \in (DOMAIN m) \cup {k} |-> IF x \in DOMAIN m THEN m[x] ELSE v]

MapPut(m, k, v) == [x \in (DOMAIN m) \cup {k} |-> IF x = k THEN v ELSE m[x]]

MapLen(m) == Cardinality(DOMAIN m)

-----------------------------------------------------------------------------
(* encoding/json *)

Serializable(p) == p # "chan"

\* json.Marshal of one payload value
MarshalValue(p) ==
    CASE p = "nil"  -> "null"
      [] p = "int1" -> "1"

\* byte order of the tokens' first bytes: '-' < ':' < 'H' < 't' < 'x'; the two
\* "-After-S..." tokens differ at 'e' < 'w'
TokRank(t) ==
    CASE t = "-After-Settle" -> 1
      [] t = "-After-Swap"   -> 2
      [] t = ":"             -> 3
      [] t = "HX-Trigger"    -> 4
      [] t = "toast"         -> 5
      [] t = "x"             -> 6

RECURSIVE StringLess(_, _)
StringLess(a, b) ==
    IF a = <<>> THEN b # <<>>
    ELSE IF b = <<>> THEN FALSE
    ELSE IF Head(a) = Head(b) THEN StringLess(Tail(a), Tail(b))
    ELSE TokRank(Head(a)) < TokRank(Head(b))

\* encoding/json writes the keys of a map in sorted order
RECURSIVE SortedKeys(_)
SortedKeys(S) ==
    IF S = {} THEN <<>>
    ELSE LET least == CHOOSE a \in S : \A b \in S \ {a} : StringLess(a, b)
         IN  <<least>> \o SortedKeys(S \ {least})

\* json.Marshal(map[string]any) fails when a value cannot be serialized
MarshalFails(m) == \E k \in DOMAIN m : ~Serializable(m[k])

\* MarshalMap that leaves out the keys of nil payloads; C19_ExplicitNull fails
\* with it
MarshalMapOmitNil(m) ==
    LET keys == SortedKeys({k \in DOMAIN m : m[k] # "nil"})
    IN  [i \in 1..Len(keys) |-> [key |-> keys[i], value |-> MarshalValue(m[keys[i]])]]

\* the JSON object text: its members in key order
MarshalMap(m) ==
    LET keys == SortedKeys(DOMAIN m)
    IN  [i \in 1..Len(keys) |-> [key |-> keys[i], value |-> MarshalValue(m[keys[i]])]]

\* marshalASCIISafe: json.Marshal, then every rune above 127 escaped; the JSON
\* texts of this model hold ASCII only, which the loop copies unchanged
marshalASCIISafe(m) ==
    IF MarshalFails(m) THEN [err |-> TRUE, data |-> <<>>]
    ELSE [err |-> FALSE, data |-> MarshalMap(m)]

-----------------------------------------------------------------------------
(* marshalASCIISafe at the level of runes and bytes.  A rune is its code    *)
(* point, a byte its value: '"' = 34, '0' = 48, 'A' = 65, '\' = 92,         *)
(* 'a' = 97, 'u' = 117.                                                     *)

\* the runes of the Go strings of the value: '"', 'A', '\', 'u', DEL, the first
\* rune above ASCII, U+00E9, the runes next to the surrogate block (U+D7FF,
\* U+E000), the last rune of the basic plane, the first and the last
\* supplementary rune.  A Go string ranged over as valid UTF-8 holds no
\* surrogate code point.
Runes == {34, 65, 92, 117, 127, 128, 233, 55295, 57344, 65535, 65536, 1114111}

RECURSIVE StringsUpTo(_)
StringsUpTo(n) ==
    IF n = 0 THEN {<<>>}
    ELSE LET shorter == StringsUpTo(n - 1)
         IN  shorter \cup {Append(s, r) : s \in shorter, r \in Runes}

GoStrings == StringsUpTo(MaxRunes)

\* json.Marshal of a Go string: quoted, '"' and '\' escaped by a backslash, the
\* other runes of Runes as they are
RECURSIVE QuoteRunes(_)
QuoteRunes(s) ==
    IF s = <<>> THEN <<>>
    ELSE (IF Head(s) \in {34, 92} THEN <<92, Head(s)>> ELSE <<Head(s)>>)
         \o QuoteRunes(Tail(s))

JSONQuote(s) == <<34>> \o QuoteRunes(s) \o <<34>>

\* buf.WriteRune(r): the UTF-8 encoding of r
WriteRune(r) ==
    IF r < 128 THEN <<r>>
    ELSE IF r < 2048 THEN <<192 + (r \div 64), 128 + (r % 64)>>
    ELSE IF r < 65536
    THEN <<224 + (r \div 4096), 128 + ((r \div 64) % 64), 128 + (r % 64)>>
    ELSE <<240 + (r \div 262144), 128 + ((r \div 4096) % 64),
           128 + ((r \div 64) % 64), 128 + (r % 64)>>

\* one digit of %x
HexDigit(d) == IF d < 10 THEN 48 + d ELSE 97 + (d - 10)

RECURSIVE HexDigits(_)
HexDigits(n) ==
    IF n < 16 THEN <<HexDigit(n)>>
    ELSE HexDigits(n \div 16) \o <<HexDigit(n % 16)>>

\* the zero padding of %04x
RECURSIVE Pad4(_)
Pad4(digits) == IF Len(digits) >= 4 THEN digits ELSE Pad4(<<48>> \o digits)

\* fmt.Fprintf(&buf, "\\u%04x", n)
UEscape(n) == <<92, 117>> \o Pad4(HexDigits(n))

\* SurrogatePair without r -= 0x10000; C13_RoundTrip fails with it
SurrogatePairNoOffset(r) ==
    [high |-> 55296 + (r \div 1024), low |-> 56320 + (r % 1024)]

\* r -= 0x10000; high := 0xD800 + (r >> 10); low := 0xDC00 + (r & 0x3FF)
SurrogatePair(r) ==
    LET r2 == r - 65536
    IN  [high |-> 55296 + (r2 \div 1024), low |-> 56320 + (r2 % 1024)]

\* EscapeRune that escapes above 255 only; C12_ASCIISafe fails with it
EscapeRuneAbove255(r) ==
    IF r > 255
    THEN IF r <= 65535 THEN UEscape(r)
         ELSE UEscape(SurrogatePair(r).high) \o UEscape(SurrogatePair(r).low)
    ELSE WriteRune(r)

\* the body of the loop over the runes of str
EscapeRune(r) ==
    IF r > 127
    THEN IF r <= 65535 THEN UEscape(r)
         ELSE UEscape(SurrogatePair(r).high) \o UEscape(SurrogatePair(r).low)
    ELSE WriteRune(r)

\* for _, r := range str { ... }: what buf holds after the loop
RECURSIVE EscapeText(_)
EscapeText(text) ==
    IF text = <<>> THEN <<>>
    ELSE EscapeRune(Head(text)) \o EscapeText(Tail(text))

-----------------------------------------------------------------------------
(* http.Header and http.ResponseWriter *)

ContentType == <<"Content-Type">>

XContentTypeOptions == <<"X-Content-Type-Options">>

HeaderKeys == Phase \cup {ContentType, XContentTypeOptions}

\* a header map with no entry
NoHeader == [k \in HeaderKeys |-> <<>>]

\* HeaderSet that adds the value to those the key has; C29_CommitFrame fails
\* with it
HeaderAdd(h, key, value) == [h EXCEPT ![key] = Append(@, value)]

\* Header.Set replaces whatever values the key had by the one value
HeaderSet(h, key, value) == [h EXCEPT ![key] = <<value>>]

\* a header value that is a JSON object text / a plain text
JSONValue(members) == [kind |-> "json", members |-> members, text |-> ""]

TextValue(t) == [kind |-> "text", members |-> <<>>, text |-> t]

\* a header map something set before Commit runs: HX-Trigger with two values,
\* HX-Trigger-After-Swap with one, a content type
EarlierHeader ==
    [NoHeader EXCEPT
        ![Immediate]   = <<JSONValue(<<[key |-> <<"toast">>, value |-> "null"]>>),
                           JSONValue(<<[key |-> <<"x">>, value |-> "null"]>>)>>,
        ![AfterSwap]   = <<JSONValue(<<[key |-> <<"toast">>, value |-> "null"]>>)>>,
        ![ContentType] = <<TextValue("text/html; charset=utf-8")>>]

\* a ResponseWriter nothing was written to; status 0: no status line yet
NewResponse == [header |-> NoHeader, status |-> 0, sent |-> NoHeader, body |-> <<>>]

\* ResponseWriter.WriteHeader: the first call fixes the status and sends the
\* header map as it is then; later calls are ignored
WriteHeader(w, code) ==
    IF w.status = 0 THEN [w EXCEPT !.status = code, !.sent = w.header] ELSE w

\* ResponseWriter.Write: an implicit WriteHeader(200), then the bytes; a response
\* of status 204 takes no body (the write fails with http.ErrBodyNotAllowed)
Write(w, chunk) ==
    LET started == WriteHeader(w, 200)
    IN  IF started.status = 204 THEN started
        ELSE [started EXCEPT !.body = Append(@, chunk)]

\* http.Error(res, msg, code)
HttpError(w, msg, code) ==
    LET h == HeaderSet(HeaderSet(w.header, ContentType, TextValue("text/plain; charset=utf-8")),
                       XContentTypeOptions, TextValue("nosniff"))
    IN  Write(WriteHeader([w EXCEPT !.header = h], code), msg)

-----------------------------------------------------------------------------
(* hxevents.Commit *)

\* MatchPhase that files a name without prefix under the first phase;
\* C5_UntaggedDropped fails with it
RECURSIVE MatchPhaseDefault(_, _)
MatchPhaseDefault(name, i) ==
    IF i > Len(PhaseList) THEN 1
    ELSE IF HasPrefix(name, Prefix(PhaseList[i])) THEN i
    ELSE MatchPhaseDefault(name, i + 1)

\* the inner loop of Commit: the index in PhaseList of the first phase whose
\* prefix the name has, from index i on; 0 when no prefix matches
RECURSIVE MatchPhase(_, _)
MatchPhase(name, i) ==
    IF i > Len(PhaseList) THEN 0
    ELSE IF HasPrefix(name, Prefix(PhaseList[i])) THEN i
    ELSE MatchPhase(name, i + 1)

\* PutEvent that files every event under HX-Trigger; C7_PartitionByPhase fails
\* with it
PutEventImmediate(phases, phase, name, payload) ==
    [phases EXCEPT ![Immediate] = MapPut(@, name, payload)]

\* phases[phase][name] = evt.Payload
PutEvent(phases, phase, name, payload) ==
    [phases EXCEPT ![phase] = MapPut(@, name, payload)]

\* the outer loop of Commit over events[i..]
RECURSIVE GroupEvents(_, _, _)
GroupEvents(evs, i, phases) ==
    IF i > Len(evs) THEN phases
    ELSE LET k == MatchPhase(evs[i].Name, 1)
         IN  GroupEvents(evs, i + 1,
                 IF k = 0 THEN phases
                 ELSE PutEvent(phases, PhaseList[k],
                               TrimPrefix(evs[i].Name, Prefix(PhaseList[k])),
                               evs[i].Payload))

\* the three empty maps Commit starts from
NewPhases == [p \in Phase |-> EmptyMap]

\* the orders in which range may visit the keys of the map phases
PhaseOrders ==
    {o \in {<<a, b, c>> : a \in Phase, b \in Phase, c \in Phase} :
        {o[1], o[2], o[3]} = Phase}

NoError == <<>>

\* fmt.Errorf("marshal events for %s: %w", phase, err)
MarshalError(phase) == <<"marshal events for">> \o phase

\* WriteHeaders without the skip of empty buckets; C8_NoEmptyHeader fails with it
RECURSIVE WriteHeadersNoSkip(_, _, _, _)
WriteHeadersNoSkip(header, phases, order, i) ==
    IF i > Len(order) THEN [header |-> header, err |-> NoError]
    ELSE LET phase == order[i]
             out   == marshalASCIISafe(phases[phase])
         IN  IF out.err
             THEN [header |-> header, err |-> MarshalError(phase)]
             ELSE WriteHeadersNoSkip(HeaderSet(header, phase, JSONValue(out.data)),
                                     phases, order, i + 1)

\* the header-writing loop of Commit from position i of the visiting order
RECURSIVE WriteHeaders(_, _, _, _)
WriteHeaders(header, phases, order, i) ==
    IF i > Len(order) THEN [header |-> header, err |-> NoError]
    ELSE LET phase == order[i]
             out   == marshalASCIISafe(phases[phase])
         IN  IF MapLen(phases[phase]) = 0
             THEN WriteHeaders(header, phases, order, i + 1)
             ELSE IF out.err
             THEN [header |-> header, err |-> MarshalError(phase)]
             ELSE WriteHeaders(HeaderSet(header, phase, JSONValue(out.data)),
                               phases, order, i + 1)

\* Commit without the IsHtmxRequest test; C4_ChannelExclusive fails with it
CommitEveryRequest(header, request, evs, order) ==
    WriteHeaders(header, GroupEvents(evs, 1, NewPhases), order, 1)

\* Commit(res, req, events): the header map it leaves and the error it returns
Commit(header, request, evs, order) ==
    IF ~IsHtmxRequest(request) THEN [header |-> header, err |-> NoError]
    ELSE WriteHeaders(header, GroupEvents(evs, 1, NewPhases), order, 1)

-----------------------------------------------------------------------------
(* hxevents.RenderInitialEvents and hxevents.RenderToasts *)

\* isPhaseEvent that knows the HX-Trigger prefix only; C20_WrongChannelDropped
\* fails with it
isPhaseEventImmediateOnly(name) == HasPrefix(name, Immediate \o <<":">>)

\* strings.HasPrefix(evt.Name, string(Immediate)+":") || ... AfterSwap ... || ... AfterSettle
isPhaseEvent(name) ==
    \/ HasPrefix(name, Immediate \o <<":">>)
    \/ HasPrefix(name, AfterSwap \o <<":">>)
    \/ HasPrefix(name, AfterSettle \o <<":">>)

\* the value of an output variable before the function was called
Unset == [tag |-> "unset", type |-> "", id |-> "", content |-> <<>>]

\* g.Text("")
EmptyText == [tag |-> "text", type |-> "", id |-> "", content |-> <<>>]

\* a nil g.Node
NilNode == [tag |-> "nil", type |-> "", id |-> "", content |-> <<>>]

\* json.Marshal([]Event): an array of {"name":..., "payload":...} records
MarshalEvents(evs) ==
    [i \in 1..Len(evs) |-> [name |-> evs[i].Name, payload |-> MarshalValue(evs[i].Payload)]]

\* RenderInitialEvents without the filter on phase prefixes; C16_InitialEvents
\* fails with it
RenderInitialEventsUnfiltered(request, evs) ==
    IF IsHtmxRequest(request) THEN EmptyText
    ELSE IF Len(evs) = 0 THEN EmptyText
    ELSE IF \E i \in 1..Len(evs) : ~Serializable(evs[i].Payload) THEN EmptyText
    ELSE [tag |-> "script", type |-> "application/json", id |-> "initial-events",
          content |-> MarshalEvents(evs)]

RenderInitialEvents(request, evs) ==
    LET initialEvents == SelectSeq(evs, LAMBDA e : ~isPhaseEvent(e.Name))
    IN  IF IsHtmxRequest(request) THEN EmptyText
        ELSE IF Len(initialEvents) = 0 THEN EmptyText
        ELSE IF \E i \in 1..Len(initialEvents) : ~Serializable(initialEvents[i].Payload)
        THEN EmptyText
        ELSE [tag |-> "script", type |-> "application/json", id |-> "initial-events",
              content |-> MarshalEvents(initialEvents)]

\* h.Div(h.Script(showToast(<json>)), h.Script(me().remove()))
ToastDiv(payload) ==
    [show |-> <<"showToast(", MarshalValue(payload), ")">>, remove |-> "me().remove()"]

\* RenderToasts without the test of the name; C17_Toasts fails with it
RenderToastsAnyName(request, evs) ==
    LET kept == SelectSeq(evs, LAMBDA e : /\ ~isPhaseEvent(e.Name)
                                          /\ Serializable(e.Payload))
        toasts == [i \in 1..Len(kept) |-> ToastDiv(kept[i].Payload)]
    IN  IF IsHtmxRequest(request) THEN NilNode
        ELSE IF Len(toasts) = 0 THEN NilNode
        ELSE [tag |-> "group", type |-> "", id |-> "", content |-> toasts]

RenderToasts(request, evs) ==
    LET kept == SelectSeq(evs, LAMBDA e : /\ ~isPhaseEvent(e.Name)
                                          /\ e.Name = <<"toast">>
                                          /\ Serializable(e.Payload))
        toasts == [i \in 1..Len(kept) |-> ToastDiv(kept[i].Payload)]
    IN  IF IsHtmxRequest(request) THEN NilNode
        ELSE IF Len(toasts) = 0 THEN NilNode
        ELSE [tag |-> "group", type |-> "", id |-> "", content |-> toasts]

-----------------------------------------------------------------------------
(* handler.Context *)

\* hasPhasePrefix that tests "HX-Trigger" without the ':'; C28_ClassifiersAgree
\* fails with it
hasPhasePrefixNoColon(name) == HasPrefix(name, <<"HX-Trigger">>)

\* strings.HasPrefix(name, "HX-Trigger:") || ... "HX-Trigger-After-Swap:" || ...
\* "HX-Trigger-After-Settle:"
hasPhasePrefix(name) ==
    \/ HasPrefix(name, <<"HX-Trigger", ":">>)
    \/ HasPrefix(name, <<"HX-Trigger", "-After-Swap", ":">>)
    \/ HasPrefix(name, <<"HX-Trigger", "-After-Settle", ":">>)

\* the conversion without the default prefix; C6_DefaultImmediate fails with it
hxEventsNoDefault(evs) ==
    [i \in 1..Len(evs) |-> [Name |-> evs[i].Name, Payload |-> evs[i].Payload]]

\* the conversion loop of commitEvents: "HX-Trigger:" is put before every name
\* that has no phase prefix
hxEvents(evs) ==
    [i \in 1..Len(evs) |->
        [Name    |-> IF ~hasPhasePrefix(evs[i].Name)
                     THEN <<"HX-Trigger", ":">> \o evs[i].Name
                     ELSE evs[i].Name,
         Payload |-> evs[i].Payload]]

\* commitEvents without the guard test; C1_CommitIdempotent fails with it
commitEventsUnguarded(header, order) ==
    LET r == Commit(header, req, hxEvents(events), order)
    IN  [eventsCommitted |-> TRUE, header |-> r.header,
         commitCalls |-> commitCalls + 1, commitErr |-> r.err]

\* commitEvents that never sets the guard; C2_GuardOnce fails with it
commitEventsFlagUnset(header, order) ==
    IF eventsCommitted
    THEN [eventsCommitted |-> TRUE, header |-> header,
          commitCalls |-> commitCalls, commitErr |-> commitErr]
    ELSE LET r == Commit(header, req, hxEvents(events), order)
         IN  [eventsCommitted |-> FALSE, header |-> r.header,
              commitCalls |-> commitCalls + 1, commitErr |-> r.err]

\* Context.commitEvents on a response whose header map is header: the guard,
\* the header map, the number of Commit invocations and Commit's result after it
commitEvents(header, order) ==
    IF eventsCommitted
    THEN [eventsCommitted |-> TRUE, header |-> header,
          commitCalls |-> commitCalls, commitErr |-> commitErr]
    ELSE LET r == Commit(header, req, hxEvents(events), order)
         IN  [eventsCommitted |-> TRUE, header |-> r.header,
              commitCalls |-> commitCalls + 1, commitErr |-> r.err]

-----------------------------------------------------------------------------
(* toast.Toast *)

\* no Toast was built
NoToast == [Message |-> "", Level |-> "", Timeout |-> 0, Position |-> "", ctx |-> ""]

\* toast.New(msg, ctx): info level, 3000 ms, bottom-right
New(msg, ctx) ==
    [Message |-> msg, Level |-> "info", Timeout |-> 3000, Position |-> "bottom-right",
     ctx |-> ctx]

\* what the builder steps and Notify leave unchanged besides toast and the
\* emitter's list
ToastFrame ==
    UNCHANGED <<req, eventsCommitted, res, pc, commitCalls, commitErr,
                initialOut, toastsOut, val, str, buf, ctxs>>

Success ==
    /\ pc = "toast"
    /\ toast' = [toast EXCEPT !.Level = "success"]
    /\ UNCHANGED <<events, calls>>
    /\ ToastFrame

Error ==
    /\ pc = "toast"
    /\ toast' = [toast EXCEPT !.Level = "error"]
    /\ UNCHANGED <<events, calls>>
    /\ ToastFrame

Warning ==
    /\ pc = "toast"
    /\ toast' = [toast EXCEPT !.Level = "warning"]
    /\ UNCHANGED <<events, calls>>
    /\ ToastFrame

Info ==
    /\ pc = "toast"
    /\ toast' = [toast EXCEPT !.Level = "info"]
    /\ UNCHANGED <<events, calls>>
    /\ ToastFrame

SetLevel(level) ==
    /\ pc = "toast"
    /\ toast' = [toast EXCEPT !.Level = level]
    /\ UNCHANGED <<events, calls>>
    /\ ToastFrame

Stay ==
    /\ pc = "toast"
    /\ toast' = [toast EXCEPT !.Timeout = 0]
    /\ UNCHANGED <<events, calls>>
    /\ ToastFrame

SetTimeout(ms) ==
    /\ pc = "toast"
    /\ toast' = [toast EXCEPT !.Timeout = ms]
    /\ UNCHANGED <<events, calls>>
    /\ ToastFrame

SetPosition(pos) ==
    /\ pc = "toast"
    /\ toast' = [toast EXCEPT !.Position = pos]
    /\ UNCHANGED <<events, calls>>
    /\ ToastFrame

\* Notify that hands the Toast itself to the emitter; C24_Notify fails with it
NotifyWhole ==
    /\ pc = "toast"
    /\ calls < MaxEvents
    /\ events' = Append(events, [Name |-> <<"toast">>, Payload |-> toast])
    /\ calls' = calls + 1
    /\ UNCHANGED toast
    /\ ToastFrame

\* Toast.Notify: toastData is built from the four fields and handed to
\* t.ctx.Event("toast", toastData); calls counts the Notify calls
Notify ==
    /\ pc = "toast"
    /\ calls < MaxEvents
    /\ events' = Append(events,
                        [Name    |-> <<"toast">>,
                         Payload |-> [Message  |-> toast.Message,
                                      Level    |-> toast.Level,
                                      Timeout  |-> toast.Timeout,
                                      Position |-> toast.Position]])
    /\ calls' = calls + 1
    /\ UNCHANGED toast
    /\ ToastFrame

-----------------------------------------------------------------------------
(* Operations *)

\* Event that commits again when the guard is already set; C27_LateEvents fails
\* with it
EventDelivering(name, payload) ==
    /\ pc \in {"handler", "direct"}
    /\ Len(events) < MaxEvents
    /\ events' = Append(events, [Name |-> name, Payload |-> payload])
    /\ res' = IF eventsCommitted
              THEN [res EXCEPT !.header =
                       Commit(res.header, req, hxEvents(events'), PhaseList).header]
              ELSE res
    /\ UNCHANGED <<req, eventsCommitted, pc, calls, commitCalls, commitErr,
                   initialOut, toastsOut,
                   val, str, buf, ctxs, toast>>

\* Event that puts the record in front of the list; C21_AppendOnly fails with it
EventPrepend(name, payload) ==
    /\ pc \in {"handler", "direct"}
    /\ Len(events) < MaxEvents
    /\ events' = <<[Name |-> name, Payload |-> payload]>> \o events
    /\ UNCHANGED <<req, eventsCommitted, res, pc, calls, commitCalls, commitErr,
                   initialOut, toastsOut,
                   val, str, buf, ctxs, toast>>

\* Context.Event (the EventAdder behind hxevents.Add)
Event(name, payload) ==
    /\ pc \in {"handler", "direct"}
    /\ Len(events) < MaxEvents
    /\ events' = Append(events, [Name |-> name, Payload |-> payload])
    /\ UNCHANGED <<req, eventsCommitted, res, pc, calls, commitCalls, commitErr,
                   initialOut, toastsOut,
                   val, str, buf, ctxs, toast>>

\* hxevents.Add(ctx, phase, name, payload)
Add(phase, name, payload) == Event(Encode(phase, name), payload)

\* Render that writes the node before it commits; C25_HeadersFirst fails with
\* it
RenderWriteFirst(order) ==
    /\ pc = "handler"
    /\ calls < MaxCalls
    /\ LET written == Write([res EXCEPT !.header = HeaderSet(res.header, ContentType,
                                     TextValue("text/html; charset=utf-8"))], "node")
           c == commitEvents(written.header, order)
       IN  /\ res' = [written EXCEPT !.header = c.header]
           /\ eventsCommitted' = c.eventsCommitted
           /\ commitCalls' = c.commitCalls
           /\ commitErr' = c.commitErr
    /\ calls' = calls + 1
    /\ UNCHANGED <<req, events, pc, initialOut, toastsOut,
                   val, str, buf, ctxs, toast>>

\* Context.Render(node), called by the handler
Render(order) ==
    /\ pc = "handler"
    /\ calls < MaxCalls
    /\ LET c == commitEvents(HeaderSet(res.header, ContentType,
                                       TextValue("text/html; charset=utf-8")), order)
       IN  /\ res' = Write([res EXCEPT !.header = c.header], "node")
           /\ eventsCommitted' = c.eventsCommitted
           /\ commitCalls' = c.commitCalls
           /\ commitErr' = c.commitErr
    /\ calls' = calls + 1
    /\ UNCHANGED <<req, events, pc, initialOut, toastsOut,
                   val, str, buf, ctxs, toast>>

\* NoContent that answers 500 when Commit returned an error; C15_NotFatal fails
\* with it
NoContentChecked(order) ==
    /\ pc = "handler"
    /\ calls < MaxCalls
    /\ LET c == commitEvents(res.header, order)
       IN  /\ res' = IF c.commitErr # NoError
                     THEN HttpError([res EXCEPT !.header = c.header],
                                    "Internal Server Error", 500)
                     ELSE WriteHeader([res EXCEPT !.header = c.header], 204)
           /\ eventsCommitted' = c.eventsCommitted
           /\ commitCalls' = c.commitCalls
           /\ commitErr' = c.commitErr
    /\ calls' = calls + 1
    /\ UNCHANGED <<req, events, pc, initialOut, toastsOut,
                   val, str, buf, ctxs, toast>>

\* Context.NoContent(), called by the handler
NoContent(order) ==
    /\ pc = "handler"
    /\ calls < MaxCalls
    /\ LET c == commitEvents(res.header, order)
       IN  /\ res' = WriteHeader([res EXCEPT !.header = c.header], 204)
           /\ eventsCommitted' = c.eventsCommitted
           /\ commitCalls' = c.commitCalls
           /\ commitErr' = c.commitErr
    /\ calls' = calls + 1
    /\ UNCHANGED <<req, events, pc, initialOut, toastsOut,
                   val, str, buf, ctxs, toast>>

\* WrapReturn without the fallback commit; C3_CommittedOnce fails with it
WrapReturnNoFallback(failed, order) ==
    /\ pc = "handler"
    /\ pc' = IF failed THEN "failed" ELSE "done"
    /\ res' = IF failed THEN HttpError(res, "Internal Server Error", 500) ELSE res
    /\ UNCHANGED <<req, events, eventsCommitted, calls, commitCalls, commitErr,
                   initialOut, toastsOut,
                   val, str, buf, ctxs, toast>>

\* the closure of Wrapper.Wrap from the return of h(ctx) on; failed: h returned
\* a non-nil error
WrapReturn(failed, order) ==
    /\ pc = "handler"
    /\ pc' = IF failed THEN "failed" ELSE "done"
    /\ IF failed
       THEN /\ res' = HttpError(res, "Internal Server Error", 500)
            /\ UNCHANGED <<eventsCommitted, commitCalls, commitErr>>
       ELSE LET c == commitEvents(res.header, order)
            IN  /\ res' = [res EXCEPT !.header = c.header]
                /\ eventsCommitted' = c.eventsCommitted
                /\ commitCalls' = c.commitCalls
                /\ commitErr' = c.commitErr
    /\ UNCHANGED <<req, events, calls, initialOut, toastsOut,
                   val, str, buf, ctxs, toast>>

\* hxevents.Commit(w, r, events) called directly on a built list
DirectCommit(order) ==
    /\ pc \in {"direct", "deliver"}
    /\ commitCalls = 0
    /\ pc' = "deliver"
    /\ LET r == Commit(res.header, req, events, order)
       IN  /\ res' = [res EXCEPT !.header = r.header]
           /\ commitErr' = r.err
    /\ commitCalls' = commitCalls + 1
    /\ UNCHANGED <<req, events, eventsCommitted, calls, initialOut, toastsOut,
                   val, str, buf, ctxs, toast>>

\* hxevents.RenderInitialEvents(r, events) called directly on a built list
DirectRenderInitialEvents ==
    /\ pc \in {"direct", "deliver"}
    /\ initialOut = Unset
    /\ pc' = "deliver"
    /\ initialOut' = RenderInitialEvents(req, events)
    /\ UNCHANGED <<req, events, eventsCommitted, res, calls, commitCalls, commitErr,
                   toastsOut,
                   val, str, buf, ctxs, toast>>

\* hxevents.RenderToasts(r, events) called directly on a built list
DirectRenderToasts ==
    /\ pc \in {"direct", "deliver"}
    /\ toastsOut = Unset
    /\ pc' = "deliver"
    /\ toastsOut' = RenderToasts(req, events)
    /\ UNCHANGED <<req, events, eventsCommitted, res, calls, commitCalls, commitErr,
                   initialOut,
                   val, str, buf, ctxs, toast>>

\* marshalASCIISafe: data, err := json.Marshal(v); str := string(data)
JsonMarshal ==
    /\ pc = "marshal"
    /\ pc' = "escape"
    /\ str' = JSONQuote(val)
    /\ UNCHANGED <<req, events, eventsCommitted, res, calls, commitCalls, commitErr,
                   initialOut, toastsOut, val, buf, ctxs, toast>>

\* marshalASCIISafe: the loop over the runes of str, up to return buf.Bytes()
EscapeLoop ==
    /\ pc = "escape"
    /\ pc' = "escaped"
    /\ buf' = EscapeText(str)
    /\ UNCHANGED <<req, events, eventsCommitted, res, calls, commitCalls, commitErr,
                   initialOut, toastsOut, val, str, ctxs, toast>>

-----------------------------------------------------------------------------
(* Several requests served concurrently through one Wrapper.  Each call of  *)
(* the closure Wrap returns has its own res, req and ctx; the steps of the  *)
(* handlers interleave.                                                     *)

\* the requests in flight
Requests == {"r1", "r2"}

\* the event name the handler emits while it serves request r
OwnName(r) == IF r = "r1" THEN <<"x">> ELSE <<"toast">>

\* ctx := &Context{Res: res, Req: req, logger: w.logger, events: make([]Event, 0)}
NewContext(request) ==
    [Req |-> request, events |-> <<>>, eventsCommitted |-> FALSE, Res |-> NewResponse,
     pc |-> "handler", calls |-> 0, commitCalls |-> 0]

\* Context.commitEvents on the Context c, its response's header map being header
commitEventsOf(c, header, order) ==
    IF c.eventsCommitted
    THEN [c EXCEPT !.Res.header = header]
    ELSE LET r == Commit(header, c.Req, hxEvents(c.events), order)
         IN  [c EXCEPT !.eventsCommitted = TRUE,
                       !.Res.header = r.header,
                       !.commitCalls = @ + 1]

\* ConcEvent that appends to a list all Contexts share; C22_Isolation fails
\* with it
ConcEventShared(r, name, payload) ==
    /\ ctxs[r].pc = "handler"
    /\ \A q \in Requests : Len(ctxs[q].events) < MaxEvents
    /\ ctxs' = [q \in Requests |->
                  [ctxs[q] EXCEPT !.events = Append(@, [Name |-> name, Payload |-> payload])]]
    /\ UNCHANGED <<req, events, eventsCommitted, res, pc, calls, commitCalls, commitErr,
                   initialOut, toastsOut, val, str, buf, toast>>

\* the handler of request r calls ctx.Event
ConcEvent(r, name, payload) ==
    /\ ctxs[r].pc = "handler"
    /\ Len(ctxs[r].events) < MaxEvents
    /\ ctxs' = [ctxs EXCEPT ![r].events = Append(@, [Name |-> name, Payload |-> payload])]
    /\ UNCHANGED <<req, events, eventsCommitted, res, pc, calls, commitCalls, commitErr,
                   initialOut, toastsOut, val, str, buf, toast>>

\* the handler of request r calls ctx.Render
ConcRender(r, order) ==
    /\ ctxs[r].pc = "handler"
    /\ ctxs[r].calls < MaxCalls
    /\ LET c == commitEventsOf(ctxs[r],
                               HeaderSet(ctxs[r].Res.header, ContentType,
                                         TextValue("text/html; charset=utf-8")),
                               order)
       IN  ctxs' = [ctxs EXCEPT ![r] = [c EXCEPT !.Res = Write(c.Res, "node"),
                                                 !.calls = @ + 1]]
    /\ UNCHANGED <<req, events, eventsCommitted, res, pc, calls, commitCalls, commitErr,
                   initialOut, toastsOut, val, str, buf, toast>>

\* the handler of request r calls ctx.NoContent
ConcNoContent(r, order) ==
    /\ ctxs[r].pc = "handler"
    /\ ctxs[r].calls < MaxCalls
    /\ LET c == commitEventsOf(ctxs[r], ctxs[r].Res.header, order)
       IN  ctxs' = [ctxs EXCEPT ![r] = [c EXCEPT !.Res = WriteHeader(c.Res, 204),
                                                 !.calls = @ + 1]]
    /\ UNCHANGED <<req, events, eventsCommitted, res, pc, calls, commitCalls, commitErr,
                   initialOut, toastsOut, val, str, buf, toast>>

\* the handler of request r returns to the closure of Wrap
ConcWrapReturn(r, failed, order) ==
    /\ ctxs[r].pc = "handler"
    /\ ctxs' = [ctxs EXCEPT ![r] =
                  IF failed
                  THEN [ctxs[r] EXCEPT !.pc = "failed",
                                       !.Res = HttpError(@, "Internal Server Error", 500)]
                  ELSE [commitEventsOf(ctxs[r], ctxs[r].Res.header, order)
                           EXCEPT !.pc = "done"]]
    /\ UNCHANGED <<req, events, eventsCommitted, res, pc, calls, commitCalls, commitErr,
                   initialOut, toastsOut, val, str, buf, toast>>

-----------------------------------------------------------------------------
(* Specifications *)

\* a request enters the closure of Wrap: the Context was just built
Init ==
    /\ req \in HandlerReqValues
    /\ events = <<>>
    /\ eventsCommitted = FALSE
    /\ res = NewResponse
    /\ pc = "handler"
    /\ calls = 0
    /\ commitCalls = 0
    /\ commitErr = NoError
    /\ initialOut = Unset
    /\ toastsOut = Unset
    /\ val = <<>>
    /\ str = <<>>
    /\ buf = <<>>
    /\ ctxs = <<>>
    /\ toast = NoToast

Next ==
    \/ \E name \in HandlerNames, payload \in Payloads : Event(name, payload)
    \/ \E phase \in Phase, name \in HandlerBareNames, payload \in Payloads :
          Add(phase, name, payload)
    \/ \E order \in PhaseOrders : Render(order)
    \/ \E order \in PhaseOrders : NoContent(order)
    \/ \E failed \in BOOLEAN, order \in PhaseOrders : WrapReturn(failed, order)

Spec == Init /\ [][Next]_vars

\* hxevents used without handler.Context: a list is built and then handed, with
\* the request, to Commit, RenderInitialEvents and RenderToasts (each once, in
\* any order)
InitDirect ==
    /\ req \in ReqValues
    /\ events = <<>>
    /\ eventsCommitted = FALSE
    /\ res = NewResponse
    /\ pc = "direct"
    /\ calls = 0
    /\ commitCalls = 0
    /\ commitErr = NoError
    /\ initialOut = Unset
    /\ toastsOut = Unset
    /\ val = <<>>
    /\ str = <<>>
    /\ buf = <<>>
    /\ ctxs = <<>>
    /\ toast = NoToast

NextDirect ==
    \/ \E name \in RawNames, payload \in Payloads : Event(name, payload)
    \/ \E phase \in Phase, name \in BareNames, payload \in Payloads :
          Add(phase, name, payload)
    \/ \E order \in PhaseOrders : DirectCommit(order)
    \/ DirectRenderInitialEvents
    \/ DirectRenderToasts

SpecDirect == InitDirect /\ [][NextDirect]_vars

\* marshalASCIISafe on a value v that holds the Go string val
InitEscape ==
    /\ req = ""
    /\ events = <<>>
    /\ eventsCommitted = FALSE
    /\ res = NewResponse
    /\ pc = "marshal"
    /\ calls = 0
    /\ commitCalls = 0
    /\ commitErr = NoError
    /\ initialOut = Unset
    /\ toastsOut = Unset
    /\ val \in GoStrings
    /\ str = <<>>
    /\ buf = <<>>
    /\ ctxs = <<>>
    /\ toast = NoToast

NextEscape ==
    \/ JsonMarshal
    \/ EscapeLoop

SpecEscape == InitEscape /\ [][NextEscape]_vars

\* the Wrapper received the requests of Requests; their closures run
\* interleaved
InitConc ==
    /\ req = ""
    /\ events = <<>>
    /\ eventsCommitted = FALSE
    /\ res = NewResponse
    /\ pc = "serve"
    /\ calls = 0
    /\ commitCalls = 0
    /\ commitErr = NoError
    /\ initialOut = Unset
    /\ toastsOut = Unset
    /\ val = <<>>
    /\ str = <<>>
    /\ buf = <<>>
    /\ ctxs \in [Requests -> {NewContext(h) : h \in HandlerReqValues}]
    /\ toast = NoToast

NextConc ==
    \/ \E r \in Requests : ConcEvent(r, OwnName(r), "int1")
    \/ \E r \in Requests, order \in PhaseOrders : ConcRender(r, order)
    \/ \E r \in Requests, order \in PhaseOrders : ConcNoContent(r, order)
    \/ \E r \in Requests, failed \in BOOLEAN, order \in PhaseOrders :
          ConcWrapReturn(r, failed, order)

SpecConc == InitConc /\ [][NextConc]_vars

\* a Toast was built by toast.New over an emitter that holds no event yet; the
\* builder methods and Notify are called on it in any order
InitToast ==
    /\ req = ""
    /\ events = <<>>
    /\ eventsCommitted = FALSE
    /\ res = NewResponse
    /\ pc = "toast"
    /\ calls = 0
    /\ commitCalls = 0
    /\ commitErr = NoError
    /\ initialOut = Unset
    /\ toastsOut = Unset
    /\ val = <<>>
    /\ str = <<>>
    /\ buf = <<>>
    /\ ctxs = <<>>
    /\ toast = New("Test", "emitter")

NextToast ==
    \/ Success
    \/ Error
    \/ Warning
    \/ Info
    \/ \E level \in {"success"} : SetLevel(level)
    \/ Stay
    \/ \E ms \in {5000} : SetTimeout(ms)
    \/ \E pos \in {"top-right"} : SetPosition(pos)
    \/ Notify

SpecToast == InitToast /\ [][NextToast]_vars

\* Commit called on a response whose header map already holds values
InitFrame ==
    /\ req \in ReqValues
    /\ events = <<>>
    /\ eventsCommitted = FALSE
    /\ res \in {NewResponse, [NewResponse EXCEPT !.header = EarlierHeader]}
    /\ pc = "direct"
    /\ calls = 0
    /\ commitCalls = 0
    /\ commitErr = NoError
    /\ initialOut = Unset
    /\ toastsOut = Unset
    /\ val = <<>>
    /\ str = <<>>
    /\ buf = <<>>
    /\ ctxs = <<>>
    /\ toast = NoToast

NextFrame ==
    \/ \E name \in RawNames, payload \in Payloads : Event(name, payload)
    \/ \E phase \in Phase, name \in BareNames, payload \in Payloads :
          Add(phase, name, payload)
    \/ \E order \in PhaseOrders : DirectCommit(order)

SpecFrame == InitFrame /\ [][NextFrame]_vars

-----------------------------------------------------------------------------
(* Vocabulary of the properties *)

\* the members of the JSON object the response header of phase p holds (none
\* when the header is absent)
Members(p) == IF res.header[p] = <<>> THEN <<>> ELSE res.header[p][1].members

Keys(p) == {Members(p)[i].key : i \in 1..Len(Members(p))}

\* the JSON texts the header of phase p maps key k to
ValuesOf(p, k) == {Members(p)[i].value : i \in {j \in 1..Len(Members(p)) : Members(p)[j].key = k}}

\* the name starts with the token of phase p followed by ':'
TaggedWith(name, p) == Len(name) > Len(p) /\ SubSeq(name, 1, Len(p) + 1) = p \o <<":">>

Tagged(name) == \E p \in Phase : TaggedWith(name, p)

\* the name without the token of phase p and the ':'
Bare(name, p) == SubSeq(name, Len(p) + 2, Len(name))

\* the phase headers the response holds
WrittenPhases == {p \in Phase : res.header[p] # <<>>}

\* the positions of evs that hold an event tagged p with bare name k
Tagging(evs, p, k) == {i \in 1..Len(evs) : TaggedWith(evs[i].Name, p) /\ Bare(evs[i].Name, p) = k}

Last(S) == CHOOSE i \in S : \A j \in S : j <= i

\* the header of phase p maps key k to the JSON text of the payload
Delivers(payload, p, k) == Serializable(payload) /\ ValuesOf(p, k) = {MarshalValue(payload)}

\* Commit ran on the list of SpecDirect
Committed == pc = "deliver" /\ commitCalls = 1

\* a step in which the commit step of the Context runs: a Render or NoContent
\* call of the handler (they alone raise calls), or the return of Wrap after the
\* handler returned nil (it alone ends in "done")
CommitStep == calls' = calls + 1 \/ (pc = "handler" /\ pc' = "done")

Returned == pc \in {"done", "failed"}

-----------------------------------------------------------------------------
(* Properties *)

\* C1: running the commit step again (Render, NoContent or the fallback of Wrap,
\* in any combination) leaves every phase header as the first run left it, and
\* no phase header ever carries more than one value.
C1_CommitIdempotent ==
    /\ [](\A p \in Phase : Len(res.header[p]) <= 1)
    /\ [][(eventsCommitted /\ CommitStep) =>
            \A p \in Phase : res'.header[p] = res.header[p]]_vars

\* two commit steps ran on an incremental request that carries an event
C1_Witness ==
    /\ req = "true"
    /\ calls = 2
    /\ pc = "done"
    /\ res.header[Immediate] # <<>>

\* C2: the guard is Pending (FALSE) or Committed (TRUE); the first commitEvents
\* moves it to Committed, nothing moves it back, a later commitEvents changes
\* nothing, and hxevents.Commit is invoked at most once per Context.
C2_GuardOnce ==
    /\ [](/\ eventsCommitted \in BOOLEAN
          /\ commitCalls <= 1
          /\ (eventsCommitted <=> commitCalls = 1))
    /\ [][/\ eventsCommitted => eventsCommitted'
          /\ CommitStep => eventsCommitted'
          /\ (eventsCommitted /\ CommitStep) =>
                /\ commitCalls' = commitCalls
                /\ commitErr' = commitErr]_vars

\* the handler answered twice and the wrapper's fallback ran: three commitEvents
\* calls, one Commit
C2_Witness ==
    /\ pc = "done"
    /\ calls = 2
    /\ eventsCommitted
    /\ commitCalls = 1
    /\ Len(events) > 0

\* C3 as stated: when Wrap returns, the events were committed exactly once,
\* whether or not the handler returned an error.
C3_Original == Returned => commitCalls = 1

\* C3 amended: when Wrap returns, the events were committed at most once:
\* exactly once when the handler returned nil or had called Render or NoContent,
\* and not at all when it returned an error without calling either.
C3_CommittedOnce ==
    Returned =>
        /\ commitCalls <= 1
        /\ (commitCalls = 1 <=> (pc = "done" \/ calls > 0))

\* the handler only added events and returned nil: the fallback committed them
C3_Witness ==
    /\ pc = "done"
    /\ calls = 0
    /\ commitCalls = 1
    /\ Len(events) > 0

\* C4: on an incremental request RenderInitialEvents and RenderToasts return
\* empty output; on any other request Commit returns nil and writes no header;
\* so header channel and inline channel never both produce output.
C4_ChannelExclusive ==
    /\ IsHtmxRequest(req) =>
          /\ initialOut \in {Unset, EmptyText}
          /\ toastsOut \in {Unset, NilNode}
    /\ ~IsHtmxRequest(req) =>
          /\ commitErr = NoError
          /\ res.header = NoHeader
    /\ ~(/\ WrittenPhases # {}
         /\ (initialOut.tag = "script" \/ toastsOut.tag = "group"))

\* all three functions ran on an incremental request whose list holds an
\* untagged toast (which a full page would render) and a tagged event
C4_Witness ==
    /\ req = "true"
    /\ Committed
    /\ initialOut = EmptyText
    /\ toastsOut = NilNode
    /\ WrittenPhases # {}
    /\ \E i \in 1..Len(events) : events[i].Name = <<"toast">> /\ Serializable(events[i].Payload)

\* C5: Commit never emits an event without a recognised phase prefix: every key
\* of a phase header is the bare name of an event tagged with that phase, with
\* that event's payload, and a list of untagged events only yields no header.
C5_UntaggedDropped ==
    Committed =>
        /\ \A p \in Phase : \A k \in Keys(p) :
              \E i \in Tagging(events, p, k) : Delivers(events[i].Payload, p, k)
        /\ (\A i \in 1..Len(events) : ~Tagged(events[i].Name)) =>
              (WrittenPhases = {} /\ commitErr = NoError)

\* Commit ran on an incremental request over an untagged event and a tagged one
C5_Witness ==
    /\ req = "true"
    /\ Committed
    /\ Len(events) = 2
    /\ events[1].Name = <<"HX-Trigger", "x">>
    /\ Tagged(events[2].Name)
    /\ WrittenPhases # {}

\* the name under which commitEvents hands event i of evs to the header channel
Delivered(evs, i) ==
    IF Tagged(evs[i].Name) THEN evs[i].Name ELSE Immediate \o <<":">> \o evs[i].Name

\* the positions of evs delivered under the same name as event i
SameDelivered(evs, i) == {j \in 1..Len(evs) : Delivered(evs, j) = Delivered(evs, i)}

\* C6: when the Context commits on an incremental request and Commit reports no
\* error, every accumulated event without a recognised phase prefix is a key of
\* the HX-Trigger header, mapped to its payload (to the payload of the last
\* event delivered under the same name, when there are several), and every
\* event with a phase prefix is a key of the header of its own phase.
C6_DefaultImmediate ==
    [][(/\ ~eventsCommitted
        /\ CommitStep
        /\ IsHtmxRequest(req)
        /\ commitErr' = NoError) =>
          \A i \in 1..Len(events) :
             LET payload == events[Last(SameDelivered(events, i))].Payload
                 value(p, k) == {res'.header[p][1].members[m].value :
                                    m \in {n \in 1..Len(res'.header[p][1].members) :
                                              res'.header[p][1].members[n].key = k}}
             IN  /\ ~Tagged(events[i].Name) =>
                       /\ res'.header[Immediate] # <<>>
                       /\ value(Immediate, events[i].Name) = {MarshalValue(payload)}
                 /\ \A p \in Phase : TaggedWith(events[i].Name, p) =>
                       /\ res'.header[p] # <<>>
                       /\ value(p, Bare(events[i].Name, p)) = {MarshalValue(payload)}]_vars

\* the Context committed an untagged event and an After-Swap event: the first is
\* under HX-Trigger, the second under HX-Trigger-After-Swap only
C6_Witness ==
    /\ req = "true"
    /\ eventsCommitted
    /\ Len(events) = 2
    /\ events[1].Name = <<"x">>
    /\ events[2].Name = AfterSwap \o <<":", "x">>
    /\ Keys(Immediate) = {<<"x">>}
    /\ Keys(AfterSwap) = {<<"x">>}
    /\ Keys(AfterSettle) = {}

\* C7: after a Commit that reports no error on an incremental request, the keys
\* of the header of each phase p are exactly the bare names of the events tagged
\* with p, each mapped to the payload of an event tagged p of that name, and a
\* phase without tagged events has no header.
C7_PartitionByPhase ==
    (Committed /\ IsHtmxRequest(req) /\ commitErr = NoError) =>
        \A p \in Phase :
           /\ Keys(p) = {Bare(events[i].Name, p) :
                            i \in {j \in 1..Len(events) : TaggedWith(events[j].Name, p)}}
           /\ \A k \in Keys(p) :
                 \E i \in Tagging(events, p, k) : Delivers(events[i].Payload, p, k)
           /\ \A i \in 1..Len(events) :
                 \A q \in Phase \ {p} :
                    TaggedWith(events[i].Name, p) =>
                       Tagging(events, q, Bare(events[i].Name, p)) # {}
                       \/ Bare(events[i].Name, p) \notin Keys(q)

\* one Immediate and one After-Swap event gave exactly two headers of one key
C7_Witness ==
    /\ req = "true"
    /\ Committed
    /\ commitErr = NoError
    /\ Len(events) = 2
    /\ TaggedWith(events[1].Name, Immediate)
    /\ TaggedWith(events[2].Name, AfterSwap)
    /\ WrittenPhases = {Immediate, AfterSwap}
    /\ Len(Members(Immediate)) = 1
    /\ Len(Members(AfterSwap)) = 1

\* the phases that have at least one tagged event
NonEmptyPhases == {p \in Phase : \E i \in 1..Len(events) : TaggedWith(events[i].Name, p)}

\* C8: no phase header ever holds the empty object, a phase without tagged
\* events never gets a header, and after a Commit that reports no error on an
\* incremental request the headers written are those of the phases that have
\* a tagged event, so their numbers are equal.
C8_NoEmptyHeader ==
    /\ \A p \in Phase : res.header[p] # <<>> => Len(Members(p)) > 0
    /\ WrittenPhases \subseteq NonEmptyPhases
    /\ (Committed /\ IsHtmxRequest(req) /\ commitErr = NoError) =>
          /\ WrittenPhases = NonEmptyPhases
          /\ Cardinality(WrittenPhases) = Cardinality(NonEmptyPhases)

\* two events of one phase: one header, two phases without header
C8_Witness ==
    /\ req = "true"
    /\ Committed
    /\ commitErr = NoError
    /\ Len(events) = 2
    /\ Cardinality(WrittenPhases) = 1
    /\ Cardinality(NonEmptyPhases) = 1
    /\ Len(Members(AfterSettle)) = 2

\* C9: when several events share phase and bare name, after a Commit that
\* reports no error the header of the phase holds the name once, with the
\* payload of the latest of them.
C9_LastWriteWins ==
    (Committed /\ IsHtmxRequest(req) /\ commitErr = NoError) =>
        \A p \in Phase : \A i \in 1..Len(events) :
           TaggedWith(events[i].Name, p) =>
              LET k == Bare(events[i].Name, p)
              IN  /\ Cardinality({m \in 1..Len(Members(p)) : Members(p)[m].key = k}) = 1
                  /\ Delivers(events[Last(Tagging(events, p, k))].Payload, p, k)

\* [("HX-Trigger:x", nil), ("HX-Trigger:x", int1)] gave {"x":1}
C9_Witness ==
    /\ req = "true"
    /\ Committed
    /\ events = <<[Name |-> <<"HX-Trigger", ":", "x">>, Payload |-> "nil"],
                 [Name |-> <<"HX-Trigger", ":", "x">>, Payload |-> "int1"]>>
    /\ Members(Immediate) = <<[key |-> <<"x">>, value |-> "1"]>>

\* C10: Add(ctx, phase, name, payload) appends exactly one event, named
\* "<phase-token>:<name>" with the payload as given, and the decoder of Commit
\* classifies that name as the phase with the bare name, also when the bare name
\* holds ':' or another phase token.
C10_EncodeDecode ==
    [][\A phase \in Phase, name \in BareNames, payload \in Payloads :
          Add(phase, name, payload) =>
             LET wire == phase \o <<":">> \o name
                 k    == MatchPhase(wire, 1)
             IN  /\ events' = events \o <<[Name |-> wire, Payload |-> payload]>>
                 /\ k \in 1..Len(PhaseList)
                 /\ PhaseList[k] = phase
                 /\ TrimPrefix(wire, Prefix(PhaseList[k])) = name
                 /\ \A q \in Phase \ {phase} :
                       GroupEvents(<<events'[Len(events')]>>, 1, NewPhases)[q] = EmptyMap
                 /\ GroupEvents(<<events'[Len(events')]>>, 1, NewPhases)[phase]
                       = MapPut(EmptyMap, name, payload)]_vars

\* Add put "HX-Trigger-After-Swap:x" under the After-Settle phase, and Commit
\* delivered it as the key "HX-Trigger-After-Swap:x" of HX-Trigger-After-Settle
C10_Witness ==
    /\ req = "true"
    /\ Committed
    /\ Len(events) = 1
    /\ events[1].Name = AfterSettle \o <<":">> \o AfterSwap \o <<":", "x">>
    /\ Keys(AfterSettle) = {AfterSwap \o <<":", "x">>}
    /\ WrittenPhases = {AfterSettle}

\* C11: a request is incremental exactly when HX-Request is "true"; without the
\* header, or with any other value such as "false", it is a full-page request:
\* only a request with "true" ever gets a phase header, only the others ever get
\* an inline block or a toast group; and classifying changes neither the
\* request nor the list.
C11_ExactTrue ==
    /\ [](/\ IsHtmxRequest(req) <=> req = "true"
          /\ req \in {"", "false"} => ~IsHtmxRequest(req)
          /\ WrittenPhases # {} => req = "true"
          /\ initialOut.tag = "script" => req \in {"", "false"}
          /\ toastsOut.tag = "group" => req \in {"", "false"})
    /\ [][/\ req' = req
          /\ pc = "deliver" => events' = events]_vars

\* HX-Request: false, and a list Commit would deliver and both renderers do
\* render: no header, an inline block, a toast
C11_Witness ==
    /\ req = "false"
    /\ Committed
    /\ \E i \in 1..Len(events) : Tagged(events[i].Name) /\ Serializable(events[i].Payload)
    /\ WrittenPhases = {}
    /\ initialOut.tag = "script"
    /\ toastsOut.tag = "group"

\* a hexadecimal digit, as a JSON decoder accepts it
IsHex(b) == b \in (48..57) \cup (97..102) \cup (65..70)

HexVal(b) == IF b >= 97 THEN b - 87 ELSE IF b >= 65 THEN b - 55 ELSE b - 48

\* the text starts with a backslash, 'u' and four hexadecimal digits
IsUEscape(o) ==
    /\ Len(o) >= 6
    /\ o[1] = 92
    /\ o[2] = 117
    /\ \A i \in 3..6 : IsHex(o[i])

\* the number the four digits of the escape at the start of the text denote
UValue(o) == ((HexVal(o[3]) * 16 + HexVal(o[4])) * 16 + HexVal(o[5])) * 16 + HexVal(o[6])

From(o, i) == SubSeq(o, i, Len(o))

\* the text is the rune-by-rune image of the runes: an ASCII rune is its own
\* byte, a rune up to U+FFFF one escape of its code point, a rune above it an
\* escape of a high surrogate followed by an escape of a low surrogate
RECURSIVE EscapedImage(_, _)
EscapedImage(runes, o) ==
    IF runes = <<>> THEN o = <<>>
    ELSE LET r == Head(runes)
         IN  IF r <= 127
             THEN o # <<>> /\ o[1] = r /\ EscapedImage(Tail(runes), Tail(o))
             ELSE IF r <= 65535
             THEN /\ IsUEscape(o)
                  /\ UValue(o) = r
                  /\ EscapedImage(Tail(runes), From(o, 7))
             ELSE /\ IsUEscape(o)
                  /\ IsUEscape(From(o, 7))
                  /\ UValue(o) \in 55296..56319
                  /\ UValue(From(o, 7)) \in 56320..57343
                  /\ EscapedImage(Tail(runes), From(o, 13))

\* the characters a JSON decoder reads from the inside of a string literal: an
\* escape of a high surrogate followed by one of a low surrogate is one
\* character, any other \uXXXX its code point, a backslash before any other
\* character that character
RECURSIVE DecodeChars(_)
DecodeChars(o) ==
    IF o = <<>> THEN <<>>
    ELSE IF o[1] # 92 THEN <<o[1]>> \o DecodeChars(Tail(o))
    ELSE IF IsUEscape(o)
    THEN IF /\ UValue(o) \in 55296..56319
            /\ IsUEscape(From(o, 7))
            /\ UValue(From(o, 7)) \in 56320..57343
         THEN <<65536 + (UValue(o) - 55296) * 1024 + (UValue(From(o, 7)) - 56320)>>
              \o DecodeChars(From(o, 13))
         ELSE <<UValue(o)>> \o DecodeChars(From(o, 7))
    ELSE IF Len(o) >= 2 THEN <<o[2]>> \o DecodeChars(From(o, 3))
    ELSE <<>>

\* the string a JSON decoder reads from a string literal
JSONUnquote(o) ==
    IF Len(o) >= 2 /\ o[1] = 34 /\ o[Len(o)] = 34
    THEN DecodeChars(SubSeq(o, 2, Len(o) - 1))
    ELSE <<-1>>

\* C12: the bytes marshalASCIISafe returns are all below 0x80, and they are the
\* serialized JSON with every ASCII rune copied as it is, every rune above 127
\* up to U+FFFF replaced by one \uXXXX of its code point, and every rune above
\* U+FFFF by a \uXXXX\uXXXX surrogate pair.
C12_ASCIISafe ==
    /\ \A i \in 1..Len(buf) : buf[i] \in 0..127
    /\ pc = "escaped" =>
          /\ EscapedImage(str, buf)
          /\ \A i \in 1..Len(str) : str[i] <= 127 => EscapeRune(str[i]) = <<str[i]>>
          /\ Len(buf) >= Len(str)

\* the JSON text "A" U+10FFFF between quotes became 15 bytes: the quote, 'A',
\* \udbff\udfff, the quote
C12_Witness ==
    /\ pc = "escaped"
    /\ val = <<65, 1114111>>
    /\ buf = <<34, 65, 92, 117, 100, 98, 102, 102, 92, 117, 100, 102, 102, 102, 34>>

\* C13: decoding the escaped text gives back the string that was serialized;
\* for a rune r above U+FFFF the pair written is high = 0xD800 + ((r - 0x10000)
\* >> 10) and low = 0xDC00 + ((r - 0x10000) & 0x3FF), high lies in
\* 0xD800..0xDBFF, low in 0xDC00..0xDFFF, and 0x10000 + ((high - 0xD800) << 10)
\* + (low - 0xDC00) = r; for a rune in 0x80..0xFFFF the single escape decodes to
\* the rune.
C13_RoundTrip ==
    pc = "escaped" =>
        /\ JSONUnquote(buf) = val
        /\ JSONUnquote(buf) = JSONUnquote(str)
        /\ \A i \in 1..Len(str) :
              LET r    == str[i]
                  high == 55296 + ((r - 65536) \div 1024)
                  low  == 56320 + ((r - 65536) % 1024)
              IN  /\ r \in 65536..1114111 =>
                        /\ EscapeRune(r) = UEscape(high) \o UEscape(low)
                        /\ high \in 55296..56319
                        /\ low \in 56320..57343
                        /\ 65536 + ((high - 55296) * 1024) + (low - 56320) = r
                        /\ DecodeChars(EscapeRune(r)) = <<r>>
                  /\ r \in 128..65535 =>
                        /\ EscapeRune(r) = UEscape(r)
                        /\ DecodeChars(EscapeRune(r)) = <<r>>

\* the Go string of a backslash and U+10000 became "\\\ud800\udc00", which
\* decodes to the two runes again
C13_Witness ==
    /\ pc = "escaped"
    /\ val = <<92, 65536>>
    /\ buf = <<34, 92, 92, 92, 117, 100, 56, 48, 48, 92, 117, 100, 99, 48, 48, 34>>
    /\ JSONUnquote(buf) = <<92, 65536>>

\* the bucket of phase p cannot be serialized: the payload that some bare name
\* keeps (that of the last event tagged p with that name) is not serializable
BucketFails(p) ==
    \E i \in 1..Len(events) :
       /\ TaggedWith(events[i].Name, p)
       /\ ~Serializable(events[Last(Tagging(events, p, Bare(events[i].Name, p)))].Payload)

\* C14 as stated: when the bucket of a phase cannot be serialized, Commit writes
\* no header for that phase and returns one error naming a failing phase, and
\* every other phase that has events and whose bucket serializes still gets its
\* header.
C14_Original ==
    (Committed /\ IsHtmxRequest(req)) =>
        /\ \A p \in Phase : BucketFails(p) => res.header[p] = <<>>
        /\ (\E p \in Phase : BucketFails(p)) =>
              \E p \in Phase : BucketFails(p) /\ commitErr = MarshalError(p)
        /\ \A p \in NonEmptyPhases : ~BucketFails(p) => res.header[p] # <<>>

\* Commit returned the error of the HX-Trigger bucket and left out the header
\* of the After-Swap bucket, which serializes
C14_Witness ==
    /\ req = "true"
    /\ Committed
    /\ commitErr = MarshalError(Immediate)
    /\ AfterSwap \in NonEmptyPhases
    /\ ~BucketFails(AfterSwap)
    /\ res.header[AfterSwap] = <<>>

\* C15: an error of hxevents.Commit is fatal to nothing.  In the step in which
\* the Context commits and Commit returns an error, Render still sets the
\* content type and writes the body under status 200, NoContent still writes
\* status 204, and the fallback of Wrap leaves the response unwritten; the
\* handler goes on after Render and NoContent, a response of a handler that
\* returned nil never has status 500, and no header other than a phase header
\* differs from what the step sets without the error.
C15_NotFatal ==
    /\ [](/\ pc = "done" => res.status # 500
          /\ commitErr # NoError => commitErr \in {MarshalError(p) : p \in Phase})
    /\ [][(~eventsCommitted /\ CommitStep /\ commitErr' # NoError) =>
            /\ (calls' = calls + 1 /\ res'.header[ContentType] # <<>>) =>
                  /\ res'.header[ContentType] = <<TextValue("text/html; charset=utf-8")>>
                  /\ res'.status = 200
                  /\ res'.body = <<"node">>
                  /\ pc' = "handler"
            /\ (calls' = calls + 1 /\ res'.header[ContentType] = <<>>) =>
                  /\ res'.status = 204
                  /\ res'.body = <<>>
                  /\ pc' = "handler"
            /\ calls' = calls =>
                  /\ pc' = "done"
                  /\ res'.status = 0
                  /\ res'.body = <<>>
            /\ \A k \in HeaderKeys \ Phase :
                  res'.header[k] \in {res.header[k], <<TextValue("text/html; charset=utf-8")>>}]_vars

\* Render committed, Commit returned the error of the After-Settle bucket, and
\* the page went out with status 200 and its body; the handler returned nil
C15_Witness ==
    /\ pc = "done"
    /\ calls = 1
    /\ commitErr = MarshalError(AfterSettle)
    /\ res.status = 200
    /\ res.body = <<"node">>
    /\ res.sent[ContentType] = <<TextValue("text/html; charset=utf-8")>>

\* the positions of the events without a phase prefix
Untagged == {i \in 1..Len(events) : ~Tagged(events[i].Name)}

\* the positions of the untagged events named exactly "toast"
Toasts == {i \in Untagged : events[i].Name = <<"toast">>}

\* the place of position i among the positions S, counted from 1
Rank(S, i) == Cardinality({k \in S : k <= i})

\* C16: on a full-page request whose untagged events all have serializable
\* payloads, RenderInitialEvents returns a script element of type
\* application/json with id initial-events whose array holds one {name,
\* payload} record per untagged event, in the order of the list, and no record
\* of a tagged event; without untagged events it returns empty output.
C16_InitialEvents ==
    (initialOut # Unset /\ ~IsHtmxRequest(req)) =>
        /\ Untagged = {} => initialOut = EmptyText
        /\ (Untagged # {} /\ \A i \in Untagged : Serializable(events[i].Payload)) =>
              /\ initialOut.tag = "script"
              /\ initialOut.type = "application/json"
              /\ initialOut.id = "initial-events"
              /\ Len(initialOut.content) = Cardinality(Untagged)
              /\ \A i \in Untagged :
                    initialOut.content[Rank(Untagged, i)] =
                       [name |-> events[i].Name, payload |-> MarshalValue(events[i].Payload)]

\* [("HX-Trigger:toast", nil), ("x", 1)] on a full-page request gave the block
\* [{"name":"x","payload":1}]
C16_Witness ==
    /\ req = ""
    /\ events = <<[Name |-> <<"HX-Trigger", ":", "toast">>, Payload |-> "nil"],
                 [Name |-> <<"x">>, Payload |-> "int1"]>>
    /\ initialOut = [tag |-> "script", type |-> "application/json", id |-> "initial-events",
                     content |-> <<[name |-> <<"x">>, payload |-> "1"]>>]

\* C17: on a full-page request RenderToasts returns one fragment per untagged
\* event named exactly "toast" whose payload serializes, in the order of the
\* list, each a script that calls showToast with the JSON text of the payload
\* followed by a script that removes the fragment; events of any other name,
\* "HX-Trigger:toast" among them, give no fragment, and without a toast the
\* output is empty.
C17_Toasts ==
    (toastsOut # Unset /\ ~IsHtmxRequest(req)) =>
        LET shown == {i \in Toasts : Serializable(events[i].Payload)}
        IN  /\ shown = {} => toastsOut = NilNode
            /\ shown # {} =>
                  /\ toastsOut.tag = "group"
                  /\ Len(toastsOut.content) = Cardinality(shown)
                  /\ \A i \in shown :
                        toastsOut.content[Rank(shown, i)] =
                           [show   |-> <<"showToast(", MarshalValue(events[i].Payload), ")">>,
                            remove |-> "me().remove()"]

\* [("HX-Trigger:toast", 1), ("toast", nil)] on a full-page request gave the one
\* fragment showToast(null)
C17_Witness ==
    /\ req = "false"
    /\ events = <<[Name |-> <<"HX-Trigger", ":", "toast">>, Payload |-> "int1"],
                 [Name |-> <<"toast">>, Payload |-> "nil"]>>
    /\ toastsOut.tag = "group"
    /\ toastsOut.content = <<[show |-> <<"showToast(", "null", ")">>, remove |-> "me().remove()"]>>

\* C18 as stated: on a full-page request an event whose payload cannot be
\* serialized is left out, and every other eligible event is still rendered:
\* the inline block holds the records of the untagged events whose payloads
\* serialize, and the toast group the fragments of the toasts whose payloads
\* serialize.
C18_Original ==
    ~IsHtmxRequest(req) =>
        /\ initialOut # Unset =>
              LET kept == {i \in Untagged : Serializable(events[i].Payload)}
              IN  kept # {} =>
                     /\ initialOut.tag = "script"
                     /\ Len(initialOut.content) = Cardinality(kept)
                     /\ \A i \in kept :
                           initialOut.content[Rank(kept, i)] =
                              [name |-> events[i].Name,
                               payload |-> MarshalValue(events[i].Payload)]
        /\ toastsOut # Unset =>
              LET shown == {i \in Toasts : Serializable(events[i].Payload)}
              IN  shown # {} =>
                     /\ toastsOut.tag = "group"
                     /\ Len(toastsOut.content) = Cardinality(shown)
                     /\ \A i \in shown :
                           toastsOut.content[Rank(shown, i)] = ToastDiv(events[i].Payload)

\* [("x", chan), ("toast", 1)] on a full-page request: RenderToasts rendered the
\* toast, RenderInitialEvents returned empty output although the toast event
\* serializes
C18_Witness ==
    /\ req = ""
    /\ events = <<[Name |-> <<"x">>, Payload |-> "chan"],
                 [Name |-> <<"toast">>, Payload |-> "int1"]>>
    /\ initialOut = EmptyText
    /\ toastsOut.tag = "group"
    /\ Len(toastsOut.content) = 1

\* C19: an event whose payload is nil is delivered with an explicit null: after
\* a Commit without error the header of its phase maps its bare name to null
\* (when no later event of that phase and name replaced the payload), and the
\* inline block holds its record with both fields, the payload being null; the
\* key or the field is never left out.
C19_ExplicitNull ==
    /\ (Committed /\ IsHtmxRequest(req) /\ commitErr = NoError) =>
          \A p \in Phase : \A i \in 1..Len(events) :
             (/\ TaggedWith(events[i].Name, p)
              /\ events[Last(Tagging(events, p, Bare(events[i].Name, p)))].Payload = "nil") =>
                /\ Bare(events[i].Name, p) \in Keys(p)
                /\ ValuesOf(p, Bare(events[i].Name, p)) = {"null"}
    /\ initialOut.tag = "script" =>
          /\ \A j \in 1..Len(initialOut.content) :
                DOMAIN initialOut.content[j] = {"name", "payload"}
          /\ \A i \in Untagged :
                events[i].Payload = "nil" =>
                   initialOut.content[Rank(Untagged, i)] =
                      [name |-> events[i].Name, payload |-> "null"]

\* [("HX-Trigger:x", nil), ("HX-Trigger-After-Settle:x", 1)] gave the headers
\* HX-Trigger: {"x":null} and HX-Trigger-After-Settle: {"x":1}
C19_Witness ==
    /\ req = "true"
    /\ Committed
    /\ events = <<[Name |-> <<"HX-Trigger", ":", "x">>, Payload |-> "nil"],
                 [Name |-> <<"HX-Trigger", "-After-Settle", ":", "x">>, Payload |-> "int1"]>>
    /\ Members(Immediate) = <<[key |-> <<"x">>, value |-> "null"]>>
    /\ Members(AfterSettle) = <<[key |-> <<"x">>, value |-> "1"]>>

\* C20: on a full-page request an event with a phase prefix reaches the client
\* nowhere and nothing is reported: Commit writes no header and returns nil,
\* the inline block holds no record of a tagged name, the toast group has a
\* fragment for untagged toasts only, and both renderers return a node.
C20_WrongChannelDropped ==
    ~IsHtmxRequest(req) =>
        /\ WrittenPhases = {}
        /\ commitErr = NoError
        /\ \A j \in 1..Len(initialOut.content) : ~Tagged(initialOut.content[j].name)
        /\ Len(initialOut.content) <= Cardinality(Untagged)
        /\ Len(toastsOut.content) <= Cardinality(Toasts)
        /\ (\A i \in 1..Len(events) : Tagged(events[i].Name)) =>
              /\ initialOut \in {Unset, EmptyText}
              /\ toastsOut \in {Unset, NilNode}
        /\ initialOut.tag \in {"unset", "text", "script"}
        /\ toastsOut.tag \in {"unset", "nil", "group"}

\* all three functions ran on a full-page request over an After-Swap event and
\* a tagged toast: no header, no block, no fragment, no error
C20_Witness ==
    /\ req = ""
    /\ Committed
    /\ events = <<[Name |-> <<"HX-Trigger", "-After-Swap", ":", "x">>, Payload |-> "int1"],
                 [Name |-> <<"HX-Trigger", ":", "toast">>, Payload |-> "int1"]>>
    /\ res.header = NoHeader
    /\ commitErr = NoError
    /\ initialOut = EmptyText
    /\ toastsOut = NilNode

\* C21: the event sequence of a request is append-only: in every step the
\* sequence before is a prefix of the sequence after, a step that changes it
\* (an Event call) adds exactly one record at the end, and the commit steps
\* (Render, NoContent, the fallback of Wrap) and the error answer of Wrap leave
\* it as it is.
C21_AppendOnly ==
    [][/\ Len(events') >= Len(events)
       /\ SubSeq(events', 1, Len(events)) = events
       /\ events' # events =>
             /\ Len(events') = Len(events) + 1
             /\ events'[Len(events')].Name \in HandlerNames \cup
                    {Encode(p, n) : p \in Phase, n \in HandlerBareNames}
             /\ events'[Len(events')].Payload \in Payloads
             /\ UNCHANGED <<res, eventsCommitted, commitCalls, calls, pc>>
       /\ (CommitStep \/ pc' # pc) => events' = events]_vars

\* two different records were added, the second after a Render, and Wrap
\* returned: they are in call order
C21_Witness ==
    /\ pc = "done"
    /\ calls = 1
    /\ Len(events) = 2
    /\ events[1] = [Name |-> <<"x">>, Payload |-> "nil"]
    /\ events[2] = [Name |-> <<"HX-Trigger", "-After-Swap", ":", "x">>, Payload |-> "int1"]

\* the keys of the header of phase p on the response of request r
KeysOf(r, p) ==
    IF ctxs[r].Res.header[p] = <<>> THEN {}
    ELSE {ctxs[r].Res.header[p][1].members[i].key :
             i \in 1..Len(ctxs[r].Res.header[p][1].members)}

\* C22: under every interleaving of the requests one Wrapper serves, the phase
\* headers of a response hold only names its own handler emitted, the event
\* list of a Context holds only its own handler's events, a step of one request
\* changes nothing of another request, each Context's guard is set by its own
\* commit only, and the first commit of an incremental request that has events
\* delivers them whether or not another request has already committed.
C22_Isolation ==
    /\ [](\A r \in Requests :
            /\ \A p \in Phase : KeysOf(r, p) \subseteq {OwnName(r)}
            /\ \A i \in 1..Len(ctxs[r].events) : ctxs[r].events[i].Name = OwnName(r)
            /\ ctxs[r].eventsCommitted <=> ctxs[r].commitCalls = 1)
    /\ [][\A r \in Requests :
            /\ ctxs'[r] # ctxs[r] => \A q \in Requests \ {r} : ctxs'[q] = ctxs[q]
            /\ (/\ ~ctxs[r].eventsCommitted
                /\ ctxs'[r].eventsCommitted
                /\ IsHtmxRequest(ctxs[r].Req)
                /\ ctxs[r].events # <<>>) =>
                  /\ ctxs'[r].Res.header[Immediate] # <<>>
                  /\ ctxs'[r].Res.header[Immediate][1].members
                        = <<[key |-> OwnName(r), value |-> "1"]>>]_vars

\* both requests were incremental, r2 committed its toast by NoContent while
\* r1 had not committed, and both returned: each response holds its own event
C22_Witness ==
    /\ ctxs["r1"].pc = "done"
    /\ ctxs["r2"].pc = "done"
    /\ ctxs["r1"].calls = 0
    /\ ctxs["r2"].Res.status = 204
    /\ KeysOf("r1", Immediate) = {<<"x">>}
    /\ KeysOf("r2", Immediate) = {<<"toast">>}

\* C23 as stated: when the handler returned an error the response has status
\* 500 and its body holds "Internal Server Error", no commit ran unless the
\* handler had called Render or NoContent, and then no phase header is set;
\* when the handler returned nil the events were committed and the status is
\* the handler's own (none yet, 200 or 204).
C23_Original ==
    /\ pc = "failed" =>
          /\ res.status = 500
          /\ \E i \in 1..Len(res.body) : res.body[i] = "Internal Server Error"
          /\ calls = 0 => (commitCalls = 0 /\ ~eventsCommitted /\ WrittenPhases = {})
    /\ pc = "done" =>
          /\ eventsCommitted
          /\ commitCalls = 1
          /\ res.status \in {0, 200, 204}
          /\ calls = 0 => res.body = <<>>

\* the handler called Render and then returned an error: the response keeps
\* status 200 and the error text follows the page in the body
C23_Witness ==
    /\ pc = "failed"
    /\ calls = 1
    /\ res.status = 200
    /\ res.sent[ContentType] = <<TextValue("text/html; charset=utf-8")>>
    /\ res.body = <<"node", "Internal Server Error">>

\* C24: a Notify call appends exactly one event, named "toast", whose payload
\* holds the Message, Level, Timeout and Position the toast has at that moment
\* and no other field, and leaves the toast and the earlier events as they are;
\* no builder method touches the emitter; so after n calls the emitter holds n
\* events.
C24_Notify ==
    /\ [](/\ Len(events) = calls
          /\ \A i \in 1..Len(events) :
                /\ events[i].Name = <<"toast">>
                /\ DOMAIN events[i].Payload = {"Message", "Level", "Timeout", "Position"})
    /\ [][/\ calls' # calls =>
                /\ events' = Append(events,
                                    [Name    |-> <<"toast">>,
                                     Payload |-> [Message  |-> toast.Message,
                                                  Level    |-> toast.Level,
                                                  Timeout  |-> toast.Timeout,
                                                  Position |-> toast.Position]])
                /\ toast' = toast
          /\ toast' # toast => events' = events]_vars

\* Notify, then Success, SetTimeout(5000) and SetPosition("top-right"), then
\* Notify again: two events, each with the fields of its moment
C24_Witness ==
    /\ pc = "toast"
    /\ calls = 2
    /\ events = <<[Name |-> <<"toast">>,
                  Payload |-> [Message |-> "Test", Level |-> "info", Timeout |-> 3000,
                               Position |-> "bottom-right"]],
                 [Name |-> <<"toast">>,
                  Payload |-> [Message |-> "Test", Level |-> "success", Timeout |-> 5000,
                               Position |-> "top-right"]]>>

\* C25: a phase header is set only while the response has not started: every
\* step that changes a phase header starts from a response without status line
\* and body, once the status line is written the phase headers sent with it are
\* the phase headers of the response for good, and the step in which the
\* Context commits sends the headers it has just set (Render, NoContent) or
\* sends nothing yet (the fallback).
C25_HeadersFirst ==
    /\ [](res.status # 0 => \A p \in Phase : res.sent[p] = res.header[p])
    /\ [][/\ (\E p \in Phase : res'.header[p] # res.header[p]) =>
                /\ res.status = 0
                /\ res.body = <<>>
          /\ res.status # 0 => res'.sent = res.sent
          /\ (~eventsCommitted /\ CommitStep /\ res'.status # 0) =>
                \A p \in Phase : res'.sent[p] = res'.header[p]]_vars

\* Render committed an After-Settle event: the header went out with the status
\* line, before the body
C25_Witness ==
    /\ pc = "done"
    /\ calls = 1
    /\ res.status = 200
    /\ res.body = <<"node">>
    /\ res.sent[AfterSettle] # <<>>
    /\ res.sent[AfterSettle] = res.header[AfterSettle]

\* the first phase of the test order whose prefix the name has, from position
\* i on; <<>> when none matches
RECURSIVE FirstMatch(_, _, _)
FirstMatch(order, name, i) ==
    IF i > Len(order) THEN <<>>
    ELSE IF HasPrefix(name, Prefix(order[i])) THEN order[i]
    ELSE FirstMatch(order, name, i + 1)

\* the phases whose bucket holds something after Commit's grouping of evs
Buckets(evs) ==
    LET phases == GroupEvents(evs, 1, NewPhases)
    IN  {p \in Phase : phases[p] # EmptyMap}

\* C26: the decoder tests the prefixes in the order Immediate, AfterSwap,
\* AfterSettle and takes the first that matches, so an event lands in at most
\* one bucket; no name of the list has more than one of the three prefixes, so
\* every other test order classifies it the same way.
C26_FirstMatchOnly ==
    /\ PhaseList = <<Immediate, AfterSwap, AfterSettle>>
    /\ \A i \in 1..Len(events) :
          LET name == events[i].Name
              k    == MatchPhase(name, 1)
          IN  /\ Cardinality({p \in Phase : HasPrefix(name, Prefix(p))}) <= 1
              /\ k # 0 => /\ HasPrefix(name, Prefix(PhaseList[k]))
                          /\ \A j \in 1..(k - 1) : ~HasPrefix(name, Prefix(PhaseList[j]))
              /\ k = 0 => \A p \in Phase : ~HasPrefix(name, Prefix(p))
              /\ Cardinality(Buckets(<<events[i]>>)) <= 1
              /\ Buckets(<<events[i]>>) = (IF k = 0 THEN {} ELSE {PhaseList[k]})
              /\ \A order \in PhaseOrders :
                    FirstMatch(order, name, 1) = (IF k = 0 THEN <<>> ELSE PhaseList[k])

\* "HX-Trigger-After-Settle:x" and "HX-Trigger:HX-Trigger-After-Swap:x" were
\* committed: the first is in the After-Settle bucket only, the second in the
\* HX-Trigger bucket only
C26_Witness ==
    /\ req = "true"
    /\ Committed
    /\ events = <<[Name |-> <<"HX-Trigger", "-After-Settle", ":", "x">>, Payload |-> "int1"],
                 [Name |-> <<"HX-Trigger", ":", "HX-Trigger", "-After-Swap", ":", "x">>,
                  Payload |-> "int1"]>>
    /\ Keys(AfterSettle) = {<<"x">>}
    /\ Keys(Immediate) = {<<"HX-Trigger", "-After-Swap", ":", "x">>}
    /\ Keys(AfterSwap) = {}

\* C27: once the Context has committed, an Event call still appends its record
\* to the list, and no step (Event, Render, NoContent, the return of Wrap)
\* changes a phase header of the response any more, also on an incremental
\* request.
C27_LateEvents ==
    [][eventsCommitted =>
          /\ \A p \in Phase : res'.header[p] = res.header[p]
          /\ eventsCommitted'
          /\ commitCalls' = commitCalls
          /\ (pc = "handler" /\ pc' = "handler" /\ calls' = calls) =>
                /\ Len(events') = Len(events) + 1
                /\ SubSeq(events', 1, Len(events)) = events]_vars

\* on an incremental request "x" was committed by Render, "HX-Trigger-After-
\* Swap:x" was added afterwards, and Wrap returned: the list holds both, the
\* response has the HX-Trigger header only
C27_Witness ==
    /\ req = "true"
    /\ pc = "done"
    /\ calls = 1
    /\ commitErr = NoError
    /\ events = <<[Name |-> <<"x">>, Payload |-> "int1"],
                 [Name |-> <<"HX-Trigger", "-After-Swap", ":", "x">>, Payload |-> "int1"]>>
    /\ Keys(Immediate) = {<<"x">>}
    /\ res.header[AfterSwap] = <<>>

\* the tokens names are made of
Tokens == {"HX-Trigger", "-After-Swap", "-After-Settle", ":", "x", "toast"}

\* every name of up to three tokens
ShortNames ==
    {<<>>} \cup {<<a>> : a \in Tokens} \cup {<<a, b>> : a \in Tokens, b \in Tokens}
           \cup {<<a, b, c>> : a \in Tokens, b \in Tokens, c \in Tokens}

\* the three classifiers give the same answer for the name
Agree(name) ==
    /\ hasPhasePrefix(name) <=> MatchPhase(name, 1) # 0
    /\ hasPhasePrefix(name) <=> isPhaseEvent(name)
    /\ hasPhasePrefix(name) <=> Tagged(name)

\* the names a list handed to Commit and to the renderers holds: those given
\* to Event as they are and those Add builds
ListNames == RawNames \cup {Prefix(p) \o n : p \in Phase, n \in BareNames}

\* the three classifiers agree on the name, also in what they do with an event
\* of that name: it is in a bucket of Commit exactly when hasPhasePrefix holds,
\* the inline filter keeps it exactly when it does not, and commitEvents gives
\* it the default prefix exactly when Commit would not classify it
ClassifiedAlike(name) ==
    LET e == [Name |-> name, Payload |-> "int1"]
    IN  /\ Agree(name)
        /\ hasPhasePrefix(name) <=> Buckets(<<e>>) # {}
        /\ hasPhasePrefix(name) <=>
              SelectSeq(<<e>>, LAMBDA ev : ~isPhaseEvent(ev.Name)) = <<>>
        /\ hxEvents(<<e>>)[1].Name # name <=> MatchPhase(name, 1) = 0

\* the three classifiers agree on every name of up to three tokens and on
\* every name a list holds
ShortNamesAgree == \A name \in ShortNames \cup ListNames : ClassifiedAlike(name)

\* C28: handler.hasPhasePrefix, the prefix loop of Commit and the filter of
\* RenderInitialEvents and RenderToasts classify every name alike: on every
\* name of up to three tokens and on every name of the list (each of which is
\* one of ListNames); a name is in a bucket of Commit exactly when
\* hasPhasePrefix holds of it, and it is kept by the inline filter exactly when
\* it does not; "HX-Trigger" followed by something other than ':' is untagged
\* for all three.
C28_ClassifiersAgree ==
    /\ ShortNamesAgree
    /\ \A i \in 1..Len(events) : events[i].Name \in ListNames
    /\ ~hasPhasePrefix(<<"HX-Trigger", "x">>)
    /\ MatchPhase(<<"HX-Trigger", "x">>, 1) = 0
    /\ ~isPhaseEvent(<<"HX-Trigger", "x">>)
    /\ ~hasPhasePrefix(<<"HX-Trigger", "-After-Swap", "x">>)

\* "HX-Triggerx" and "HX-Trigger-After-Swap:x" were handed to Commit and to
\* RenderInitialEvents on an incremental request: only the second is in a
\* header
C28_Witness ==
    /\ req = "true"
    /\ Committed
    /\ initialOut = EmptyText
    /\ events = <<[Name |-> <<"HX-Trigger", "x">>, Payload |-> "int1"],
                 [Name |-> <<"HX-Trigger", "-After-Swap", ":", "x">>, Payload |-> "int1"]>>
    /\ Keys(AfterSwap) = {<<"x">>}
    /\ Keys(Immediate) = {}

\* C29: a call of Commit changes no header but phase headers of phases that
\* have events, and only on an incremental request; a header it sets has
\* exactly one value afterwards, whatever it held before; phase headers of
\* phases without events, every other header, the status, the body, the
\* request and the list stay as they were; and when Commit returns nil on an
\* incremental request every phase that has events holds its new value alone.
C29_CommitFrame ==
    [][commitCalls' # commitCalls =>
          /\ \A k \in HeaderKeys :
                res'.header[k] # res.header[k] =>
                   /\ k \in NonEmptyPhases
                   /\ IsHtmxRequest(req)
                   /\ Len(res'.header[k]) = 1
                   /\ res'.header[k][1].kind = "json"
                   /\ res'.header[k][1].members # <<>>
          /\ \A p \in Phase \ NonEmptyPhases : res'.header[p] = res.header[p]
          /\ \A k \in HeaderKeys \ Phase : res'.header[k] = res.header[k]
          /\ res'.status = res.status
          /\ res'.body = res.body
          /\ res'.sent = res.sent
          /\ req' = req
          /\ events' = events
          /\ (IsHtmxRequest(req) /\ commitErr' = NoError) =>
                \A p \in NonEmptyPhases :
                   /\ Len(res'.header[p]) = 1
                   /\ {res'.header[p][1].members[i].key :
                          i \in 1..Len(res'.header[p][1].members)}
                        = {Bare(events[j].Name, p) :
                             j \in {n \in 1..Len(events) : TaggedWith(events[n].Name, p)}}]_vars

\* Commit of [("HX-Trigger:x", 1)] on the response that held two HX-Trigger
\* values: HX-Trigger is {"x":1} alone, After-Swap and Content-Type are as
\* before
C29_Witness ==
    /\ req = "true"
    /\ Committed
    /\ events = <<[Name |-> <<"HX-Trigger", ":", "x">>, Payload |-> "int1"]>>
    /\ res.header[Immediate] = <<JSONValue(<<[key |-> <<"x">>, value |-> "1"]>>)>>
    /\ res.header[AfterSwap] = EarlierHeader[AfterSwap]
    /\ res.header[ContentType] = EarlierHeader[ContentType]
    /\ res.header[AfterSettle] = <<>>

====
